---- MODULE Spec2Model ----
(***************************************************************************)
(* Model of shared/gpu.py: the host-side driver for the ST bootloader ROM  *)
(* of the GPU co-processor (I2C framing, ack/busy polling, mode control).  *)
(*                                                                         *)
(* One execution context runs one high-level operation at a time.  Every   *)
(* I2C transaction and every pin call is one step.  The device side is     *)
(* unconstrained: each status read may deliver any status byte, each       *)
(* payload read any blob of the requested length, and each transaction may *)
(* raise OSError (device not responding).                                  *)
(*                                                                         *)
(* bus and pins are history variables: what a recording transport / pin   *)
(* mock would have seen during the current high-level call.  Status reads  *)
(* made inside _wait_done are counted in wd.retry instead of being         *)
(* appended to bus.                                                        *)
(*                                                                         *)
(* Spec is the driver as one context uses it.  SpecMode adds mode-control  *)
(* calls abandoned half-way, SpecCmd and SpecXor call _send_cmd and        *)
(* add_xor_check on their own over their whole argument range, SpecClock   *)
(* records the time slept in _wait_done, and SpecConc runs two contexts on *)
(* the one bus.                                                            *)
(***************************************************************************)
EXTENDS Integers, Sequences, FiniteSets, TLC

-----------------------------------------------------------------------------
(* Bounds of the model *)

\* write_at is tried with every data length 0 .. 4*MaxWords (plus 256, 260)
MaxWords == 2
\* payloads and data are drawn from the byte patterns 0 .. MaxPattern
MaxPattern == 1
\* add_xor_check is also applied to every sequence of up to MaxSeqLen bytes
\* drawn from SeqBytes
MaxSeqLen == 3

-----------------------------------------------------------------------------
(* Program constants *)

BL_ACK  == <<121>>
BL_NACK == <<31>>
BL_BUSY == <<118>>
FLASH_START == 134217728

\* range(100) in _wait_done
RETRIES_m101 == 100 + 1
RETRIES == 100
\* a byte that is none of the three recognised status values
UNRECOGNIZED == <<170>>

-----------------------------------------------------------------------------
(* Pure helpers *)

Byte == 0..255

\* Python's ^ on non-negative ints
RECURSIVE BitXor(_, _)
BitXor(a, b) ==
    IF a = 0 THEN b
    ELSE IF b = 0 THEN a
    ELSE (((a % 2) + (b % 2)) % 2) + 2 * BitXor(a \div 2, b \div 2)

\* rv = 0; for b in lst: rv ^= b
\* The loop is a left fold of ^ over lst.  It is evaluated block by block
\* (XorBlock folds one block left to right, XorFold folds the blocks left to
\* right) so that the recursion depth stays small for 257-byte frames; ^ is
\* associative, so the value is the loop's.
BLOCK == 16

RECURSIVE XorBlock(_, _, _)
XorBlock(lst, lo, hi) ==
    IF hi < lo THEN 0 ELSE BitXor(XorBlock(lst, lo, hi - 1), lst[hi])

RECURSIVE XorBlocks(_, _)
XorBlocks(lst, c) ==
    IF c = 0 THEN 0
    ELSE LET lo == BLOCK * (c - 1) + 1
             hi == IF BLOCK * c < Len(lst) THEN BLOCK * c ELSE Len(lst)
         IN BitXor(XorBlocks(lst, c - 1), XorBlock(lst, lo, hi))

XorFold(lst) == XorBlocks(lst, (Len(lst) + BLOCK - 1) \div BLOCK)

\* return bytes(lst + bytes([rv]))
add_xor_check_ff(lst) == lst \o <<BitXor(255, XorFold(lst))>>
add_xor_check(lst) == lst \o <<XorFold(lst)>>

\* struct.pack('>I', addr)
PackBE_little(a) ==
    << a % 256, (a \div 256) % 256, (a \div 65536) % 256, (a \div 16777216) % 256 >>
PackBE(a) ==
    << (a \div 16777216) % 256, (a \div 65536) % 256, (a \div 256) % 256, a % 256 >>

\* bytes([cmd, 0xff ^ cmd])
CmdFrame_twos(c) == << c, (256 - c) % 256 >>
CmdFrame(c) == << c, BitXor(255, c) >>

\* bytes(lst) raises ValueError when an element is outside 0..255
BytesOk(lst) == \A i \in 1..Len(lst) : lst[i] \in Byte

-----------------------------------------------------------------------------
(* Inputs and device behaviour *)

\* FlashAddress is a 32-bit address: flash base, an aligned flash address,
\* FLASH_START, the default address of read_at / write_at, an odd address,
\* and one in the bootloader ROM region that is even but no multiple of 4
Addrs == { FLASH_START, FLASH_START + 256, FLASH_START + 257, 536808658 }

\* byte pattern k of length n
Pattern(n, k) == [i \in 1..n |-> (k * (i + 40)) % 256]
Patterns == 0..MaxPattern

ReadLens == { 0, 1, 16, 256, 257, 300 }
DataLens == (0..(4 * MaxWords)) \cup { 256, 260 }
Datas == { Pattern(n, k) : n \in DataLens, k \in Patterns }

\* arguments of add_xor_check: every short sequence over a few bytes, and
\* the long patterns
SeqBytes == { 0, 1, 85, 128, 255 }
ByteSeqs == (UNION { [1..n -> SeqBytes] : n \in 0..MaxSeqLen }) \cup Datas

\* what a one-byte status read can deliver
StatusBytes == { BL_ACK, BL_NACK, BL_BUSY, UNRECOGNIZED }
\* what readfrom(BL_ADDR, n) can deliver
Blobs(n) == { Pattern(n, k) : k \in Patterns }

-----------------------------------------------------------------------------
(* State *)

VARIABLES
    g_reset,    \* level driven on G_RESET (open drain, pulled up): 0 or 1
    g_boot0,    \* G_SWCLK_B0: [mode |-> "IN" | "OUT_PP", val |-> output latch]
    pins,       \* pin calls made by the current mode-control call
    pstep,      \* index of the next statement of reset() / enter_bl()
    bus,        \* I2C transactions of the current call outside _wait_done
    pc,         \* position of the execution context
    op,         \* high-level operation in progress / last finished
    loc,        \* arguments and locals of the call in progress
    rv,         \* bl_cmd_read: payload read so far
    wd,         \* locals of the current / last _wait_done call
    waits,      \* number of _wait_done calls started by the current call
    da_resp,    \* bl_double_ack: resp of the first _wait_done
    result,     \* value returned by the high-level operation
    err,        \* exception raised by the high-level operation ("" if none)
    clock,      \* ms slept by the current / last _wait_done call (<<>> when
                \* no clock is recorded)
    conc        \* two execution contexts sharing the bus (see SpecConc)

vars == << g_reset, g_boot0, pins, pstep, bus, pc, op, loc, rv, wd, waits,
           da_resp, result, err, clock, conc >>

pinVars  == << g_reset, g_boot0, pins, pstep >>
waitVars == << wd, waits, da_resp >>

Finished == { "done", "raised" }

\* Optional values: <<>> is None, <<v>> is the value v
None == <<>>
Some(v) == <<v>>

NoLoc == [ cmd |-> 0, expect_len |-> 0, addr |-> None, arg2 |-> None,
           no_final |-> FALSE, arg |-> <<>>, data |-> <<>>, ln |-> 0 ]

NoResult    == [ t |-> "none",  b |-> FALSE, v |-> <<>> ]
RetBool(x)  == [ t |-> "bool",  b |-> x,     v |-> <<>> ]
RetBytes(x) == [ t |-> "bytes", b |-> FALSE, v |-> x ]

\* _wait_done: retry = attempts made, resp = the local resp (None while
\* unassigned), allbusy = every attempt so far read BUSY, brk = the loop was
\* left by break, st = "run" in the loop, "over" at "return resp", "ret"
\* after returning, "exc" after raising
\* last = what the latest attempt did: "fault" (OSError), "status" (a byte
\* was read), "none" before the first attempt
WdFresh == [ retry |-> 0, resp |-> None, allbusy |-> TRUE, brk |-> FALSE,
             st |-> "run", last |-> "none" ]

\* the sleep clock starts every _wait_done call at zero
ClockReset == IF clock = None THEN None ELSE Some(0)

\* entries of bus: writeto(BL_ADDR, data) / readfrom(BL_ADDR, n) -> data;
\* at names the statement that issued it, ok is FALSE when it raised OSError
WEntry(at, frame, ok) ==
    [ k |-> "w", at |-> at, n |-> Len(frame), data |-> frame, ok |-> ok ]
REntry(at, n, data, ok) ==
    [ k |-> "r", at |-> at, n |-> n, data |-> data, ok |-> ok ]

\* the two contexts of SpecConc: op and i are the operation a context runs and
\* the index of its next bus transaction (i = 0: no call in progress);
\* locking says whether the callers use an external lock, lock is its holder
\* (0 = free); lastw is the context whose frame write is the latest on the
\* bus (0 = none by an operation still running); lastr describes the latest
\* status read: the context c that issued it and the context whose frame
\* write it followed
Ctx == {1, 2}
ConcIdle(locking) ==
    [ ctx     |-> [ c \in Ctx |-> [ op |-> "none", i |-> 0 ] ],
      locking |-> locking,
      lock    |-> 0,
      lastw   |-> 0,
      lastr   |-> [ c |-> 0, after |-> 0 ] ]

\* __init__: the reset line is an open-drain output whose level the
\* constructor does not set, boot-select is an input
InitDriver ==
    /\ g_reset \in {0, 1}
    /\ g_boot0 \in [ mode : {"IN"}, val : {0, 1} ]
    /\ pins = <<>>
    /\ pstep = 1
    /\ bus = <<>>
    /\ pc = "idle"
    /\ op = "none"
    /\ loc = NoLoc
    /\ rv = <<>>
    /\ wd = WdFresh
    /\ waits = 0
    /\ da_resp = None
    /\ result = NoResult
    /\ err = ""

\* one context, no sleep clock recorded
Init ==
    /\ InitDriver
    /\ clock = None
    /\ conc = ConcIdle(FALSE)

\* every call starts with fresh locals and fresh recordings
Begin(o, l, p) ==
    /\ pc = "idle"
    /\ op' = o
    /\ loc' = l
    /\ pc' = p
    /\ pins' = <<>>
    /\ pstep' = 1
    /\ bus' = <<>>
    /\ rv' = <<>>
    /\ wd' = WdFresh
    /\ waits' = 0
    /\ da_resp' = None
    /\ result' = NoResult
    /\ clock' = ClockReset
    /\ UNCHANGED conc

-----------------------------------------------------------------------------
(* Mode control *)

\* pin(v) and pin.init(mode=m)
SetPin(p, v)  == [ pin |-> p, act |-> "set",  mode |-> "",  val |-> v ]
InitPin(p, m) == [ pin |-> p, act |-> "init", mode |-> m,   val |-> 0 ]

\* the pin statements of reset() and enter_bl(), in program order
ResetProgram_late ==
    << SetPin("reset", 0), SetPin("reset", 1), InitPin("boot0", "IN") >>
ResetProgram ==
    << InitPin("boot0", "IN"), SetPin("reset", 0), SetPin("reset", 1) >>

EnterBlProgram_early ==
    << SetPin("reset", 0), SetPin("reset", 1), InitPin("boot0", "OUT_PP"),
       SetPin("boot0", 1), InitPin("boot0", "IN") >>
EnterBlProgram ==
    << SetPin("reset", 0), InitPin("boot0", "OUT_PP"), SetPin("boot0", 1),
       SetPin("reset", 1), InitPin("boot0", "IN") >>

ModeProgram(o) == IF o = "reset" THEN ResetProgram ELSE EnterBlProgram

reset ==
    /\ Begin("reset", NoLoc, "pins")
    /\ err' = ""
    /\ UNCHANGED << g_reset, g_boot0 >>

enter_bl ==
    /\ Begin("enter_bl", NoLoc, "pins")
    /\ err' = ""
    /\ UNCHANGED << g_reset, g_boot0 >>

\* one pin statement: Pin.init(mode=...) changes the mode and keeps the
\* output latch, pin(v) sets the latch
PinStep ==
    /\ pc = "pins"
    /\ LET prog == ModeProgram(op)
           s == prog[pstep]
       IN /\ g_reset' = IF s.pin = "reset" THEN s.val ELSE g_reset
          /\ g_boot0' = IF s.pin # "boot0" THEN g_boot0
                        ELSE IF s.act = "init" THEN [g_boot0 EXCEPT !.mode = s.mode]
                        ELSE [g_boot0 EXCEPT !.val = s.val]
          /\ pins' = Append(pins, s)
          /\ pstep' = pstep + 1
          /\ pc' = IF pstep = Len(prog) THEN "done" ELSE "pins"
    /\ UNCHANGED << bus, op, loc, rv, wd, waits, da_resp, result, err >>
    /\ UNCHANGED << clock, conc >>

\* a mode-control call is abandoned between two pin statements (the
\* interpreter delivers KeyboardInterrupt between statements); the lines
\* stay as the statements executed so far left them
ModeInterrupt ==
    /\ pc = "pins"
    /\ pc' = "raised"
    /\ err' = "KeyboardInterrupt"
    /\ UNCHANGED << pinVars, waitVars, bus, op, loc, rv, result, clock, conc >>

-----------------------------------------------------------------------------
(* High-level protocol operations: entry *)

GET_VERSION_LEN_short == 20 - 1
GET_VERSION_LEN == 20
MASS_ERASE == <<255, 255>>
MAX_LEN == 256

Start_pulse(o, l) ==
    /\ Begin(o, l, "send_cmd_w")
    /\ err' = ""
    /\ g_reset' = 1
    /\ UNCHANGED g_boot0
Start(o, l) ==
    /\ Begin(o, l, "send_cmd_w")
    /\ err' = ""
    /\ UNCHANGED << g_reset, g_boot0 >>

\* the call fails before its first statement that touches the bus
Reject(o, l, e) ==
    /\ Begin(o, l, "raised")
    /\ err' = e
    /\ UNCHANGED << g_reset, g_boot0 >>

get_version ==
    /\ pc = "idle"
    /\ Start("get_version", [NoLoc EXCEPT !.cmd = 0, !.expect_len = GET_VERSION_LEN])

bulk_erase ==
    /\ pc = "idle"
    /\ Start("bulk_erase", [NoLoc EXCEPT !.cmd = 69, !.arg = MASS_ERASE])

readout_unprotect ==
    /\ pc = "idle"
    /\ Start("readout_unprotect", [NoLoc EXCEPT !.cmd = 147])

readout_protect ==
    /\ pc = "idle"
    /\ Start("readout_protect", [NoLoc EXCEPT !.cmd = 131])

\* assert ln <= 256
ReadAtPre_lax(ln) == ln <= MAX_LEN + 1
ReadAtPre(ln) == ln <= MAX_LEN

read_at ==
    /\ pc = "idle"
    /\ \E a \in Addrs, ln \in ReadLens :
        LET l == [NoLoc EXCEPT !.cmd = 17, !.expect_len = ln, !.addr = Some(a),
                               !.arg2 = Some(ln - 1), !.no_final = TRUE,
                               !.ln = ln]
        IN IF ReadAtPre(ln)
           THEN Start("read_at", l)
           ELSE Reject("read_at", l, "AssertionError")

\* assert ln <= 256; assert ln % 4 == 0; assert addr % 4 == 0
WriteAtPre(a, ln) == ln <= MAX_LEN /\ ln % 4 = 0 /\ a % 4 = 0

\* bytes([ln-1]) + data
WriteAtPayload_len(ln, data) == <<ln>> \o data
WriteAtPayload(ln, data) == <<ln - 1>> \o data

write_at ==
    /\ pc = "idle"
    /\ \E a \in Addrs, data \in Datas :
        LET ln == Len(data)
            l  == [NoLoc EXCEPT !.cmd = 50, !.addr = Some(a), !.data = data,
                                !.ln = ln]
        IN IF ~WriteAtPre(a, ln)
           THEN Reject("write_at", l, "AssertionError")
           ELSE IF ~BytesOk(WriteAtPayload(ln, data))
           THEN Reject("write_at", l, "ValueError: bytes")
           ELSE Start("write_at",
                      [l EXCEPT !.arg = add_xor_check(WriteAtPayload(ln, data))])

run_at ==
    /\ pc = "idle"
    /\ \E a \in Addrs :
          Start("run_at", [NoLoc EXCEPT !.cmd = 33, !.addr = Some(a)])

\* _send_cmd(cmd) called on its own, with any command byte
send_cmd ==
    /\ pc = "idle"
    /\ \E c \in Byte :
          Start("_send_cmd", [NoLoc EXCEPT !.cmd = c])

\* add_xor_check(lst) called on its own
xor_check ==
    /\ pc = "idle"
    /\ \E lst \in ByteSeqs :
          /\ Begin("add_xor_check", [NoLoc EXCEPT !.arg = lst], "xor")
          /\ err' = ""
          /\ UNCHANGED << g_reset, g_boot0 >>

XorCheckReturn ==
    /\ pc = "xor"
    /\ result' = RetBytes(add_xor_check(loc.arg))
    /\ pc' = "done"
    /\ err' = err
    /\ UNCHANGED << pinVars, waitVars, bus, op, loc, rv, clock, conc >>

ViaCmdRead == { "get_version", "read_at", "write_at", "run_at" }
ViaDoubleAck == { "readout_unprotect", "readout_protect" }

-----------------------------------------------------------------------------
(* Bus steps outside _wait_done *)

\* an outcome of a one-byte status read: a status byte, or <<>> for OSError
ReadOutcomes == StatusBytes \cup { None }

Raise(e) ==
    /\ pc' = "raised"
    /\ err' = e

Goto(p) ==
    /\ pc' = p
    /\ err' = err

\* i2c.writeto(BL_ADDR, frame), then continue at p
WriteFrame(at, frame, p) ==
    /\ \E ok \in BOOLEAN :
          /\ bus' = Append(bus, WEntry(at, frame, ok))
          /\ IF ok THEN Goto(p) ELSE Raise("OSError")
    /\ waits' = IF pc' = "wait" THEN waits + 1 ELSE waits   \* _wait_done is entered
    /\ UNCHANGED << pinVars, wd, da_resp, op, loc, rv, result, clock, conc >>

\* resp != BL_ACK ?
IsAck_notnack(resp) == resp # BL_NACK
IsAck(resp) == resp = BL_ACK

\* resp = i2c.readfrom(BL_ADDR, 1); if resp != BL_ACK: raise ValueError(e)
ReadStatus(at, e, p) ==
    /\ \E r \in ReadOutcomes :
          /\ bus' = Append(bus, REntry(at, 1, r, r # None))
          /\ IF r = None THEN Raise("OSError")
             ELSE IF ~IsAck(r) THEN Raise(e)
             ELSE Goto(p)
    /\ waits' = IF pc' = "wait" THEN waits + 1 ELSE waits   \* _wait_done is entered
    /\ UNCHANGED << pinVars, wd, da_resp, op, loc, rv, result, clock, conc >>

\* bl_cmd_read: where control goes after each stage
AfterArg2_payload == "payload_r"
AfterArg2 ==
    IF loc.expect_len = 0
    THEN (IF op = "write_at" THEN "wa_w" ELSE "done")
    ELSE "payload_r"
AfterAddr == IF loc.arg2 # None THEN "arg2_w" ELSE AfterArg2
AfterCmd  == IF loc.addr # None THEN "addr_w" ELSE AfterAddr

AfterSendCmd ==
    IF op \in ViaCmdRead THEN AfterCmd
    ELSE IF op = "bulk_erase" THEN "doit_w"
    ELSE IF op \in ViaDoubleAck THEN "wait"
    ELSE "done"

SendCmdWrite ==
    /\ pc = "send_cmd_w"
    /\ WriteFrame("cmd", CmdFrame(loc.cmd), "send_cmd_r")

SendCmdRead ==
    /\ pc = "send_cmd_r"
    /\ ReadStatus("cmd", "ValueError: unknown command", AfterSendCmd)

\* qq = add_xor_check(struct.pack('>I', addr))
AddrFrame(a) == add_xor_check(PackBE(a))

AddrWrite ==
    /\ pc = "addr_w"
    /\ WriteFrame("addr", AddrFrame(loc.addr[1]), "addr_r")

AddrRead ==
    /\ pc = "addr_r"
    /\ ReadStatus("addr", "ValueError: bad addr", AfterAddr)

\* bytes([arg2, 0xff ^ arg2])
CountFrame(v) == << v, BitXor(255, v) >>

\* every caller passes an int as arg2; bytes() raises ValueError for a
\* value outside 0..255 and nothing is written
Arg2Write ==
    /\ pc = "arg2_w"
    /\ IF loc.arg2[1] \in Byte
       THEN WriteFrame("arg2", CountFrame(loc.arg2[1]), "arg2_r")
       ELSE /\ Raise("ValueError: bytes")
            /\ UNCHANGED << pinVars, waitVars, bus, op, loc, rv, result >>
            /\ UNCHANGED << clock, conc >>

Arg2Read ==
    /\ pc = "arg2_r"
    /\ ReadStatus("arg2", "ValueError: bad arg2", AfterArg2)

\* rv = i2c.readfrom(BL_ADDR, expect_len)
PayloadRead ==
    /\ pc = "payload_r"
    /\ \/ \E blob \in Blobs(loc.expect_len) :
             /\ bus' = Append(bus, REntry("payload", loc.expect_len, blob, TRUE))
             /\ rv' = blob
             /\ IF loc.no_final
                THEN Goto("done") /\ result' = RetBytes(blob)
                ELSE Goto("final_r") /\ result' = result
       \/ /\ bus' = Append(bus, REntry("payload", loc.expect_len, <<>>, FALSE))
          /\ Raise("OSError")
          /\ UNCHANGED << rv, result >>
    /\ UNCHANGED << pinVars, waitVars, op, loc, clock, conc >>

\* final ack/nack
FinalRead ==
    /\ pc = "final_r"
    /\ \E r \in ReadOutcomes :
          /\ bus' = Append(bus, REntry("final", 1, r, r # None))
          /\ IF r = None THEN Raise("OSError") /\ result' = result
             ELSE IF ~IsAck(r) THEN Raise("ValueError: resp") /\ result' = result
             ELSE Goto("done") /\ result' = RetBytes(rv)
    /\ UNCHANGED << pinVars, waitVars, op, loc, rv, clock, conc >>

\* bl_doit: self.i2c.writeto(BL_ADDR, add_xor_check(arg))
DoitWrite ==
    /\ pc = "doit_w"
    /\ WriteFrame("arg", add_xor_check(loc.arg), "wait")

\* write_at: self.i2c.writeto(BL_ADDR, arg)
WriteAtWrite ==
    /\ pc = "wa_w"
    /\ WriteFrame("arg", loc.arg, "wait")

-----------------------------------------------------------------------------
(* _wait_done and its callers *)

\* an outcome of one polling attempt: a status byte, or <<>> for OSError
PollOutcomes == StatusBytes \cup { None }

\* if resp != BL_BUSY: break
PollBreak_ack(r) == r = BL_ACK
PollBreak(r) == r # BL_BUSY

\* bl_double_ack: if resp == BL_ACK: return self._wait_done()
DoubleAckAgain_always(r) == TRUE
DoubleAckAgain(r) == r = BL_ACK

\* bulk_erase / write_at: ... == BL_ACK
EraseOk_notnack(r) == r # BL_NACK
EraseOk(r) == r = BL_ACK
WriteOk(r) == r = BL_ACK

\* the caller's statements after _wait_done returned r
WaitReturn(r) ==
    IF op = "bulk_erase" THEN
        /\ Goto("done") /\ result' = RetBool(EraseOk(r))
        /\ wd' = [wd EXCEPT !.st = "ret"]
        /\ UNCHANGED << da_resp, waits >>
    ELSE IF op = "write_at" THEN
        /\ Goto("done") /\ result' = RetBool(WriteOk(r))
        /\ wd' = [wd EXCEPT !.st = "ret"]
        /\ UNCHANGED << da_resp, waits >>
    ELSE IF waits = 1 THEN
        \* bl_double_ack, first wait
        /\ da_resp' = r
        /\ IF DoubleAckAgain(r)
           THEN /\ Goto("wait") /\ result' = result
                /\ wd' = WdFresh
                /\ waits' = waits + 1
           ELSE /\ Goto("done") /\ result' = RetBytes(r)
                /\ wd' = [wd EXCEPT !.st = "ret"]
                /\ waits' = waits
    ELSE
        \* bl_double_ack, second wait
        /\ Goto("done") /\ result' = RetBytes(r)
        /\ wd' = [wd EXCEPT !.st = "ret"]
        /\ UNCHANGED << da_resp, waits >>

\* utime.sleep_ms(50) after OSError, utime.sleep_ms(20) after BUSY
SLEEP_NODEV_long == 50 + 1
SLEEP_NODEV == 50
SLEEP_BUSY == 20

\* what one attempt sleeps: 50 ms in the except branch, nothing when the loop
\* breaks, 20 ms after BUSY
AttemptSleep_always(faulted, brk) ==
    IF faulted THEN SLEEP_NODEV ELSE SLEEP_BUSY
AttemptSleep(faulted, brk) ==
    IF faulted THEN SLEEP_NODEV ELSE IF brk THEN 0 ELSE SLEEP_BUSY

\* utime.sleep_ms(ms): only the recorded clock sees it
Sleep(ms) == IF clock = None THEN None ELSE Some(clock[1] + ms)

\* one iteration of "for retry in range(100)": a status read, then either
\* sleep (50 ms after OSError, 20 ms after BUSY) and continue, or leave the
\* loop (break, or range exhausted)
WaitDoneStep ==
    /\ pc = "wait"
    /\ \E o \in PollOutcomes :
         LET faulted == o = None
             brk  == ~faulted /\ PollBreak(o)
             n1   == wd.retry + 1
         IN /\ wd' = [ retry   |-> n1,
                       resp    |-> IF faulted THEN wd.resp ELSE o,
                       allbusy |-> wd.allbusy /\ o = BL_BUSY,
                       brk     |-> brk,
                       st      |-> IF brk \/ n1 >= RETRIES THEN "over" ELSE "run",
                       last    |-> IF faulted THEN "fault" ELSE "status" ]
            /\ clock' = Sleep(AttemptSleep(faulted, brk))
            /\ Goto(IF brk \/ n1 >= RETRIES THEN "wait_ret" ELSE "wait")
    /\ UNCHANGED << pinVars, waits, da_resp, bus, op, loc, rv, result, conc >>

\* "return resp" and the caller's remaining statements, none of which touches
\* the bus; "return resp" raises UnboundLocalError when no attempt ever
\* assigned resp
WaitDoneReturn ==
    /\ pc = "wait_ret"
    /\ IF wd.resp = None
       THEN /\ wd' = [wd EXCEPT !.st = "exc"]
            /\ Raise("UnboundLocalError")
            /\ UNCHANGED << waits, da_resp, result >>
       ELSE WaitReturn(wd.resp)
    /\ clock' = IF pc' = "wait" THEN ClockReset ELSE clock  \* second _wait_done
    /\ UNCHANGED << pinVars, bus, op, loc, rv, conc >>

\* the caller has taken the result (or the exception); the driver keeps
\* nothing between operations but the state of the two control lines
Finish ==
    /\ pc \in Finished
    /\ pc' = "idle"
    /\ op' = "none"
    /\ loc' = NoLoc
    /\ pins' = <<>>
    /\ pstep' = 1
    /\ bus' = <<>>
    /\ rv' = <<>>
    /\ wd' = WdFresh
    /\ waits' = 0
    /\ da_resp' = None
    /\ result' = NoResult
    /\ err' = ""
    /\ clock' = ClockReset
    /\ UNCHANGED << g_reset, g_boot0, conc >>

-----------------------------------------------------------------------------
(* Two execution contexts on one bus *)

\* Both contexts run the driver's code on the same I2C object.  What matters
\* here is the order of their bus transactions, so an operation is followed
\* through the kinds of its transactions, in program order: "w" a frame
\* write, "r" a one-byte status read that must be ACK, "p" a payload read,
\* "poll" a _wait_done call.  The driver code takes no lock anywhere; a lock,
\* when the callers use one, is taken before the call and released after it.

driverVars == << g_reset, g_boot0, pins, pstep, bus, pc, op, loc, rv, wd,
                 waits, da_resp, result, err, clock >>

\* _send_cmd: writeto, then readfrom(BL_ADDR, 1)
SendCmdProgram_readfirst == << "r", "w" >>
SendCmdProgram == << "w", "r" >>

\* the transactions of each operation after _send_cmd
BusProgram(o) ==
    SendCmdProgram \o
    ( IF o = "get_version" THEN << "p", "r" >>
      ELSE IF o = "read_at" THEN << "w", "r", "w", "r", "p" >>
      ELSE IF o = "write_at" THEN << "w", "r", "w", "poll" >>
      ELSE IF o = "run_at" THEN << "w", "r" >>
      ELSE IF o = "bulk_erase" THEN << "w", "poll" >>
      ELSE << "poll", "poll" >> )     \* bl_double_ack

ConcOps == ViaCmdRead \cup ViaDoubleAck \cup { "bulk_erase" }

\* the position after the last transaction: the call returns or raises
ConcEnd(c) == Len(BusProgram(conc.ctx[c].op)) + 1

\* the kind of the next transaction of context c
ConcKind(c) ==
    LET x == conc.ctx[c]
    IN IF x.i = 0 \/ x.i = ConcEnd(c) THEN "-" ELSE BusProgram(x.op)[x.i]

\* the caller of context c starts an operation (after taking the lock, when
\* the callers use one)
ConcCall(c) ==
    /\ conc.ctx[c].i = 0
    /\ conc.locking => conc.lock = 0
    /\ \E o \in ConcOps :
          conc' = [conc EXCEPT !.ctx[c] = [ op |-> o, i |-> 1 ],
                               !.lock = IF conc.locking THEN c ELSE 0]
    /\ UNCHANGED driverVars

\* i2c.writeto: an OSError ends the call
ConcWrite(c) ==
    /\ ConcKind(c) = "w"
    /\ \E ok \in BOOLEAN :
          conc' = [conc EXCEPT !.ctx[c].i = IF ok THEN @ + 1 ELSE ConcEnd(c),
                               !.lastw = IF ok THEN c ELSE @]
    /\ UNCHANGED driverVars

\* a status read at a frame boundary: anything but ACK ends the call
ConcStatus(c) ==
    /\ ConcKind(c) = "r"
    /\ \E r \in ReadOutcomes :
          conc' = [conc EXCEPT
                     !.ctx[c].i = IF r # None /\ IsAck(r) THEN @ + 1 ELSE ConcEnd(c),
                     !.lastr = IF r = None THEN @
                               ELSE [ c |-> c, after |-> conc.lastw ]]
    /\ UNCHANGED driverVars

\* the payload read: an OSError ends the call
ConcPayload(c) ==
    /\ ConcKind(c) = "p"
    /\ \E ok \in BOOLEAN :
          conc' = [conc EXCEPT !.ctx[c].i = IF ok THEN @ + 1 ELSE ConcEnd(c)]
    /\ UNCHANGED driverVars

\* one attempt of _wait_done; the attempts are not counted here: after BUSY
\* or OSError the loop either goes on or has used up its range.  A status
\* other than ACK ends the call (bl_double_ack does not wait a second time)
ConcPoll(c) ==
    /\ ConcKind(c) = "poll"
    /\ \E r \in PollOutcomes, used_up \in BOOLEAN :
          conc' = [conc EXCEPT
                     !.ctx[c].i = IF r = None \/ ~PollBreak(r)
                                  THEN (IF used_up THEN ConcEnd(c) ELSE @)
                                  ELSE IF r = BL_ACK THEN @ + 1
                                  ELSE ConcEnd(c),
                     !.lastr = IF r = None THEN @
                               ELSE [ c |-> c, after |-> conc.lastw ]]
    /\ UNCHANGED driverVars

\* the call of context c is over; its caller releases the lock it holds
ConcReturn(c) ==
    /\ conc.ctx[c].i # 0
    /\ conc.ctx[c].i = ConcEnd(c)
    /\ conc' = [conc EXCEPT
                  !.ctx[c] = [ op |-> "none", i |-> 0 ],
                  !.lock = IF @ = c THEN 0 ELSE @,
                  !.lastw = IF @ = c THEN 0 ELSE @,
                  !.lastr = IF @.c = c THEN [ c |-> 0, after |-> 0 ] ELSE @]
    /\ UNCHANGED driverVars

InitConc ==
    /\ InitDriver
    /\ clock = None
    /\ conc \in { ConcIdle(FALSE), ConcIdle(TRUE) }

NextConc ==
    \/ \E c \in Ctx : ConcCall(c)
    \/ \E c \in Ctx : ConcWrite(c)
    \/ \E c \in Ctx : ConcStatus(c)
    \/ \E c \in Ctx : ConcPayload(c)
    \/ \E c \in Ctx : ConcPoll(c)
    \/ \E c \in Ctx : ConcReturn(c)

SpecConc == InitConc /\ [][NextConc]_vars

-----------------------------------------------------------------------------

Next ==
    \/ reset
    \/ enter_bl
    \/ PinStep
    \/ get_version
    \/ bulk_erase
    \/ readout_unprotect
    \/ readout_protect
    \/ read_at
    \/ write_at
    \/ run_at
    \/ SendCmdWrite
    \/ SendCmdRead
    \/ AddrWrite
    \/ AddrRead
    \/ Arg2Write
    \/ Arg2Read
    \/ PayloadRead
    \/ FinalRead
    \/ DoitWrite
    \/ WriteAtWrite
    \/ WaitDoneStep
    \/ WaitDoneReturn
    \/ Finish

Spec == Init /\ [][Next]_vars

\* the operations that poll once (bulk_erase) and twice (readout_protect),
\* with the time slept in _wait_done recorded
InitClock ==
    /\ InitDriver
    /\ clock = Some(0)
    /\ conc = ConcIdle(FALSE)

NextClock ==
    \/ bulk_erase
    \/ readout_protect
    \/ SendCmdWrite
    \/ SendCmdRead
    \/ DoitWrite
    \/ WaitDoneStep
    \/ WaitDoneReturn
    \/ Finish

SpecClock == InitClock /\ [][NextClock]_vars

\* _send_cmd alone, over every command byte
NextCmd ==
    \/ send_cmd
    \/ SendCmdWrite
    \/ SendCmdRead
    \/ Finish

SpecCmd == Init /\ [][NextCmd]_vars

\* add_xor_check alone, over ByteSeqs
NextXor ==
    \/ xor_check
    \/ XorCheckReturn
    \/ Finish

SpecXor == Init /\ [][NextXor]_vars

\* the same driver, with mode-control calls that may be abandoned half-way
NextMode ==
    \/ Next
    \/ ModeInterrupt

SpecMode == Init /\ [][NextMode]_vars

TypeOK ==
    /\ g_reset \in {0, 1}
    /\ g_boot0 \in [ mode : {"IN", "OUT_PP"}, val : {0, 1} ]
    /\ pc \in { "idle", "done", "raised", "pins", "send_cmd_w", "send_cmd_r",
                "addr_w", "addr_r", "arg2_w", "arg2_r", "payload_r", "final_r",
                "doit_w", "wa_w", "wait", "wait_ret", "xor" }
    /\ wd.retry \in 0..RETRIES
    /\ waits \in 0..2

-----------------------------------------------------------------------------
(* Vocabulary of the properties.  The expected frames are written out      *)
(* independently of the operators the actions use.                         *)

IsPrefix(u, v) == Len(u) <= Len(v) /\ \A i \in 1..Len(u) : u[i] = v[i]

\* bit k of the XOR of a byte sequence is the parity of the bytes having it
XorBit(q, k) ==
    Cardinality({ i \in 1..Len(q) : (q[i] \div (2 ^ k)) % 2 = 1 }) % 2
XorOf(q) ==
    XorBit(q, 0) + 2 * XorBit(q, 1) + 4 * XorBit(q, 2) + 8 * XorBit(q, 3)
    + 16 * XorBit(q, 4) + 32 * XorBit(q, 5) + 64 * XorBit(q, 6)
    + 128 * XorBit(q, 7)

Ack == <<121>>

\* a frame written without fault, a status read that delivered ACKNOWLEDGE
Wrote(at, frame) ==
    [ k |-> "w", at |-> at, n |-> Len(frame), data |-> frame, ok |-> TRUE ]
GotAck(at) ==
    [ k |-> "r", at |-> at, n |-> 1, data |-> Ack, ok |-> TRUE ]
Got(at, n, data) ==
    [ k |-> "r", at |-> at, n |-> n, data |-> data, ok |-> TRUE ]

\* 4 big-endian bytes of a 32-bit address followed by their XOR
AddressFrame(a) ==
    LET be == << a \div 16777216, (a \div 65536) % 256, (a \div 256) % 256,
                 a % 256 >>
    IN be \o << XorOf(be) >>

\* a status read made at a command / address / argument boundary
IsBoundaryRead(e) == e.k = "r" /\ e.at \in { "cmd", "addr", "arg2" }

NoPolling == waits = 0 /\ wd.retry = 0

-----------------------------------------------------------------------------
(* C1 *)

\* C1: a frame other than the first of an operation is written only when the
\* bus transaction right before it is a status read that delivered
\* ACKNOWLEDGE; a status read at a command, address or argument boundary that
\* delivered anything else is the last bus transaction of the operation: the
\* operation has raised, and no poll read was made.
C1_AckBeforeNextFrame ==
    /\ \A i \in 1..Len(bus) :
          (bus[i].k = "w" /\ i > 1) =>
              /\ bus[i-1].k = "r" /\ bus[i-1].n = 1 /\ bus[i-1].ok
              /\ bus[i-1].data = Ack
              /\ bus[i-1].at \in { "cmd", "addr", "arg2" }
    /\ \A i \in 1..Len(bus) :
          (IsBoundaryRead(bus[i]) /\ bus[i].ok /\ bus[i].data # Ack) =>
              /\ i = Len(bus)
              /\ pc = "raised" /\ err # ""
              /\ NoPolling
    /\ (waits > 0) =>
          /\ bus # <<>>
          /\ \/ bus[Len(bus)].k = "w" /\ bus[Len(bus)].ok
             \/ bus[Len(bus)] = GotAck("cmd")

\* the address frame was sent and answered BUSY: the operation stopped there
C1_Witness ==
    /\ pc = "raised"
    /\ Len(bus) = 4
    /\ bus[2] = GotAck("cmd")
    /\ bus[3].k = "w" /\ bus[3].ok
    /\ bus[4] = Got("addr", 1, <<118>>)

-----------------------------------------------------------------------------
(* C2 *)

\* C2: a _wait_done call that used up its attempt budget (the loop ended
\* without break after RETRIES attempts) returns its last status and does not
\* raise, for every sequence of BUSY statuses and OSError faults.
C2_ExhaustedReturnsStatus ==
    (wd.retry = RETRIES /\ ~wd.brk /\ wd.st \in { "ret", "exc" }) =>
        /\ wd.st = "ret"
        /\ err = ""
        /\ pc = "done"

-----------------------------------------------------------------------------
(* C3 *)

\* the attempt budget, and the run in which every attempt read BUSY
C3_Inv ==
    /\ wd.retry <= 100
    /\ (wd.st # "run" /\ wd.allbusy) =>
          /\ wd.retry = 100
          /\ wd.resp = <<118>>
          /\ ~wd.brk
          /\ wd.st \in { "over", "ret" }

\* one attempt costs one unit of the budget; an all-BUSY poll returns BUSY
C3_Step ==
    /\ (pc = "wait") => wd'.retry = wd.retry + 1
    /\ (pc = "wait_ret" /\ wd.allbusy) =>
          /\ pc' = "done"
          /\ result' = IF op \in ViaDoubleAck THEN RetBytes(<<118>>)
                       ELSE RetBool(FALSE)

\* C3: _wait_done never makes more than 100 status-read attempts; every
\* attempt, whether it read a status or raised OSError, advances the attempt
\* count by exactly one; and when every attempt read BUSY the loop is left
\* after exactly 100 attempts and BUSY is what the call returns.
C3_BoundedPolling == [](C3_Inv) /\ [][C3_Step]_vars

\* permanently BUSY device: 100 attempts were made and the operation is over
C3_Witness ==
    /\ pc = "done"
    /\ wd.allbusy
    /\ wd.retry = 100
    /\ wd.st = "ret"

-----------------------------------------------------------------------------
(* C4 *)

DoubleAckOps == { "readout_unprotect", "readout_protect" }

\* everything but the last element
Front(q) == SubSeq(q, 1, Len(q) - 1)

\* C4: in readout_protect / readout_unprotect polling starts exactly when the
\* command frame has been acknowledged.  When the first _wait_done returned
\* ACKNOWLEDGE a second one is run and the operation returns what the second
\* one returns.  When the first returned anything else (NEGATIVE-ACKNOWLEDGE,
\* an unrecognized byte, or BUSY with the budget used up) the operation is
\* over at once with that value as its result and a second _wait_done was
\* never started.
C4_DoubleAck ==
    (op \in DoubleAckOps) =>
        /\ Len(bus) <= 2
        /\ (waits >= 1) <=> (Len(bus) = 2 /\ bus[2] = GotAck("cmd"))
        /\ (da_resp = None) => (waits <= 1 /\ pc # "done")
        /\ (da_resp = Ack) =>
              /\ waits = 2
              /\ (pc = "done") =>
                    (wd.st = "ret" /\ wd.resp # None /\ result = RetBytes(wd.resp))
        /\ (da_resp # None /\ da_resp # Ack) =>
              /\ waits = 1
              /\ pc = "done" /\ err = ""
              /\ result = RetBytes(da_resp)
              /\ wd.st = "ret" /\ wd.resp = da_resp
              /\ (da_resp = <<118>>) => (wd.retry = 100 /\ ~wd.brk)

\* first poll ACK, second poll NEGATIVE-ACKNOWLEDGE: the second is returned
C4_Witness ==
    /\ op \in DoubleAckOps
    /\ pc = "done"
    /\ da_resp = Ack
    /\ waits = 2
    /\ result = RetBytes(<<31>>)

-----------------------------------------------------------------------------
(* C5 *)

\* C5: a read_at call with length > 256, and a write_at call with data
\* length > 256, with a data length that is no multiple of 4, or with an
\* address that is no multiple of 4, has raised AssertionError, and no bus
\* write, bus read or poll was issued by it.
C5_RejectBeforeBus ==
    (\/ op = "read_at" /\ loc.ln > 256
     \/ op = "write_at" /\ (loc.ln > 256 \/ loc.ln % 4 # 0 \/ loc.addr[1] % 4 # 0))
    =>
        /\ pc = "raised"
        /\ err = "AssertionError"
        /\ bus = <<>>
        /\ NoPolling
        /\ result = NoResult

\* a 4-byte write to an address that is not word aligned was rejected
C5_Witness ==
    /\ op = "write_at"
    /\ loc.ln = 4
    /\ loc.addr[1] % 4 # 0
    /\ pc = "raised"
    /\ bus = <<>>

-----------------------------------------------------------------------------
(* C6 *)

\* the bus transactions of a write_at that is acknowledged throughout
WriteAtExpected(a, data) ==
    LET payload == << Len(data) - 1 >> \o data
    IN << Wrote("cmd", <<50, 205>>), GotAck("cmd"),
          Wrote("addr", AddressFrame(a)), GotAck("addr"),
          Wrote("arg", payload \o << XorOf(payload) >>) >>

WriteAtValid ==
    /\ op = "write_at"
    /\ loc.ln \in 1..256 /\ loc.ln % 4 = 0
    /\ loc.addr[1] % 4 = 0

\* C6: write_at with valid arguments issues command frame {0x32, 0xCD}, one
\* status read, the 5-byte address frame, one status read, and the argument
\* frame {len-1} + data + XOR, in this order and nothing else; _wait_done
\* runs once, exactly when these five transactions are complete, so the
\* argument frame has no status read of its own; and the value returned is
\* TRUE exactly when the status _wait_done returned is ACKNOWLEDGE.
C6_WriteAtSequence ==
    WriteAtValid =>
        LET e == WriteAtExpected(loc.addr[1], loc.data)
        IN /\ (pc # "raised") => IsPrefix(bus, e)
           /\ (pc = "raised") =>
                 (bus = e \/ (bus # <<>> /\ IsPrefix(Front(bus), e)))
           /\ waits <= 1
           /\ (waits = 1) <=> (bus = e)
           /\ (wd.retry > 0) => (waits = 1)
           /\ (pc = "done") =>
                 /\ wd.st = "ret" /\ wd.resp # None
                 /\ err = ""
                 /\ result = RetBool(wd.resp = Ack)

\* write_at(0x08000100, 4 zero bytes), everything acknowledged at once
C6_Witness ==
    /\ op = "write_at"
    /\ loc.addr = << 134217984 >>
    /\ loc.data = << 0, 0, 0, 0 >>
    /\ pc = "done"
    /\ wd.retry = 1
    /\ result = RetBool(TRUE)

-----------------------------------------------------------------------------
(* C7 *)

\* C7: get_version writes {0x00, 0xFF}, reads one status, reads 20 payload
\* bytes and reads one trailing status, in this order, each step only after
\* the one before succeeded; it never polls.  It returns exactly when the
\* command status and the trailing status are both ACKNOWLEDGE, and then its
\* result is the 20 bytes the payload read delivered; otherwise it raises
\* and has no result.
C7_GetVersion ==
    (op = "get_version") =>
        /\ NoPolling
        /\ Len(bus) <= 4
        /\ (Len(bus) >= 1) => (bus[1].k = "w" /\ bus[1].data = <<0, 255>>)
        /\ (Len(bus) >= 2) => (bus[1].ok /\ bus[2].k = "r" /\ bus[2].n = 1)
        /\ (Len(bus) >= 3) =>
              (bus[2] = GotAck("cmd") /\ bus[3].k = "r" /\ bus[3].n = 20)
        /\ (Len(bus) >= 4) => (bus[3].ok /\ bus[4].k = "r" /\ bus[4].n = 1)
        /\ (pc = "done") <=>
              (Len(bus) = 4 /\ bus[2] = GotAck("cmd") /\ bus[4] = GotAck("final"))
        /\ (pc = "done") =>
              (err = "" /\ Len(bus[3].data) = 20 /\ result = RetBytes(bus[3].data))
        /\ (pc = "raised") => (err # "" /\ result = NoResult)
        /\ (pc \notin Finished) => (Len(bus) < 4 /\ result = NoResult)

\* a non-zero 20-byte blob came back unchanged
C7_Witness ==
    /\ op = "get_version"
    /\ pc = "done"
    /\ Len(result.v) = 20
    /\ result.v[1] = 41 /\ result.v[20] = 60

-----------------------------------------------------------------------------
(* C8 *)

\* the bus transactions of a read_at that is acknowledged throughout
ReadAtExpected(a, ln, payload) ==
    << Wrote("cmd", <<17, 238>>), GotAck("cmd"),
       Wrote("addr", AddressFrame(a)), GotAck("addr"),
       Wrote("arg2", << ln - 1, 255 - (ln - 1) >>), GotAck("arg2"),
       Got("payload", ln, payload) >>

\* C8: read_at with 1 <= length <= 256 and any address, aligned or not,
\* issues command frame {0x11, 0xEE}, a status read, the address as 4
\* big-endian bytes plus XOR, a status read, the count frame {length-1,
\* 0xFF ^ (length-1)}, a status read and one read of length bytes, in this
\* order and nothing else: no trailing status read and no polling.  Its
\* result is the payload as delivered.
C8_ReadAtSequence ==
    (op = "read_at" /\ loc.ln \in 1..256) =>
        LET e == ReadAtExpected(loc.addr[1], loc.ln, rv)
        IN /\ NoPolling
           /\ Len(bus) <= 7
           /\ (pc \notin Finished) =>
                 (IsPrefix(bus, e) /\ Len(bus) < 7 /\ result = NoResult)
           /\ (pc = "raised") =>
                 /\ bus # <<>> /\ IsPrefix(Front(bus), e)
                 /\ result = NoResult
           /\ (pc = "done") =>
                 /\ bus = e
                 /\ err = ""
                 /\ Len(rv) = loc.ln
                 /\ result = RetBytes(bus[7].data)

\* 256 bytes read from an odd address
C8_Witness ==
    /\ op = "read_at"
    /\ loc.addr[1] % 2 = 1
    /\ loc.ln = 256
    /\ pc = "done"
    /\ Len(result.v) = 256 /\ result.v[256] = 40

-----------------------------------------------------------------------------
(* C9 *)

BulkEraseExpected ==
    << Wrote("cmd", <<69, 186>>), GotAck("cmd"), Wrote("arg", <<255, 255, 0>>) >>

\* C9: bulk_erase writes command frame {0x45, 0xBA}, reads one status, and
\* after ACKNOWLEDGE writes {0xFF, 0xFF, 0x00}; _wait_done runs once, exactly
\* when these three transactions are complete, so the argument frame has no
\* status read of its own.  The value returned is TRUE exactly when the
\* status _wait_done returned is ACKNOWLEDGE; whenever polling ended with a
\* status (NEGATIVE-ACKNOWLEDGE, an unrecognized byte, or BUSY with the budget
\* used up) the operation returns and does not raise.
C9_BulkErase ==
    (op = "bulk_erase") =>
        LET e == BulkEraseExpected
        IN /\ (pc # "raised") => IsPrefix(bus, e)
           /\ (pc = "raised") =>
                 (bus = e \/ (bus # <<>> /\ IsPrefix(Front(bus), e)))
           /\ waits <= 1
           /\ (waits = 1) <=> (bus = e)
           /\ (pc = "done") =>
                 /\ wd.st = "ret" /\ wd.resp # None
                 /\ err = ""
                 /\ result = RetBool(wd.resp = Ack)
           /\ (waits = 1 /\ pc \in Finished /\ wd.resp # None) => pc = "done"

\* the device stayed BUSY for all 100 polls: bulk_erase returned FALSE
C9_Witness ==
    /\ op = "bulk_erase"
    /\ pc = "done"
    /\ wd.resp = <<118>>
    /\ wd.retry = 100
    /\ result = RetBool(FALSE)

-----------------------------------------------------------------------------
(* C10 *)

EnterBlExpected ==
    << [ pin |-> "reset", act |-> "set",  mode |-> "",       val |-> 0 ],
       [ pin |-> "boot0", act |-> "init", mode |-> "OUT_PP", val |-> 0 ],
       [ pin |-> "boot0", act |-> "set",  mode |-> "",       val |-> 1 ],
       [ pin |-> "reset", act |-> "set",  mode |-> "",       val |-> 1 ],
       [ pin |-> "boot0", act |-> "init", mode |-> "IN",     val |-> 0 ] >>

\* the order of the pin calls and the state of the lines at return
C10_Inv ==
    (op = "enter_bl") =>
        /\ IsPrefix(pins, EnterBlExpected)
        /\ (pc = "done") =>
              (pins = EnterBlExpected /\ g_reset = 1 /\ g_boot0.mode = "IN")
        /\ (pc # "done") => (pc = "pins" /\ Len(pins) < 5)

\* the reset-release edge
C10_Step ==
    (op = "enter_bl" /\ g_reset = 0 /\ g_reset' = 1) =>
        /\ g_boot0 = [ mode |-> "OUT_PP", val |-> 1 ]
        /\ g_boot0' = g_boot0

\* C10: enter_bl makes its pin calls in the order reset low, boot-select to
\* push-pull output, boot-select high, reset high, boot-select to input; at
\* the step that takes reset from low to high boot-select is a push-pull
\* output driving high; and when enter_bl has returned reset is high and
\* boot-select is an input, from every state of the two lines at the call.
C10_EnterBlOrder == [](C10_Inv) /\ [][C10_Step]_vars

\* enter_bl has returned
C10_Witness ==
    /\ op = "enter_bl"
    /\ pc = "done"
    /\ Len(pins) = 5
    /\ g_reset = 1
    /\ g_boot0 = [ mode |-> "IN", val |-> 1 ]

-----------------------------------------------------------------------------
(* C11 *)

ResetExpected ==
    << [ pin |-> "boot0", act |-> "init", mode |-> "IN", val |-> 0 ],
       [ pin |-> "reset", act |-> "set",  mode |-> "",   val |-> 0 ],
       [ pin |-> "reset", act |-> "set",  mode |-> "",   val |-> 1 ] >>

C11_Inv ==
    op = "reset" =>
        /\ IsPrefix(pins, ResetExpected)
        /\ Len(pins) >= 1 => g_boot0.mode = "IN"
        /\ Len(pins) = 2 => g_reset = 0
        /\ pc = "done" =>
              /\ pins = ResetExpected
              /\ g_reset = 1
              /\ g_boot0.mode = "IN"

\* the statement that releases reset finds and leaves boot-select an input
C11_Step ==
    /\ (op = "reset" /\ Len(pins) = 2 /\ Len(pins') = 3)
          => (g_reset = 0 /\ g_reset' = 1 /\ g_boot0.mode = "IN" /\ g_boot0'.mode = "IN")
    /\ (op = "reset" /\ op' = "reset" /\ g_reset = 0 /\ g_reset' = 1)
          => (Len(pins) = 2 /\ Len(pins') = 3)

\* C11: reset() first makes boot-select a floating input, then drives reset
\* low, then high; when reset is released boot-select is not a driven
\* output, and when reset() returns reset is high and boot-select is an
\* input, whatever state the lines were in before (after enter_bl, or after
\* a mode-control call that was abandoned half-way).
C11_ResetOrder == [](C11_Inv) /\ [][C11_Step]_vars

\* reset() is running on lines that an abandoned enter_bl() left with reset
\* low and boot-select driven
C11_Witness ==
    /\ op = "reset"
    /\ pc = "pins"
    /\ g_boot0.mode = "OUT_PP"
    /\ g_reset = 0

-----------------------------------------------------------------------------
(* C12 *)

\* C12: for every command byte 0..255, _send_cmd writes exactly one two-byte
\* frame, the command and its bitwise complement, and then reads exactly one
\* status byte; it returns iff that byte is ACK and raises for any other
\* byte, NACK and BUSY included; it never polls.
C12_SendCmd ==
    op = "_send_cmd" =>
        LET c == loc.cmd
        IN /\ c \in 0..255
           /\ Len(bus) <= 2
           /\ NoPolling
           /\ Len(bus) >= 1 =>
                 /\ bus[1].k = "w"
                 /\ bus[1].n = 2
                 /\ bus[1].data = << c, 255 - c >>
           /\ Len(bus) = 2 =>
                 /\ bus[1].ok
                 /\ bus[2].k = "r"
                 /\ bus[2].n = 1
           /\ pc = "done" <=>
                 (Len(bus) = 2 /\ bus[2].ok /\ bus[2].data = Ack)
           /\ pc = "raised" <=>
                 \/ Len(bus) = 1 /\ ~bus[1].ok
                 \/ Len(bus) = 2 /\ (~bus[2].ok \/ bus[2].data # Ack)
           /\ pc = "done" => (err = "" /\ result = [ t |-> "none", b |-> FALSE, v |-> <<>> ])
           /\ pc = "raised" => err # ""

\* _send_cmd(0xAA), a byte the driver itself never sends, was refused with
\* BUSY and raised
C12_Witness ==
    /\ op = "_send_cmd"
    /\ loc.cmd = 170
    /\ pc = "raised"
    /\ Len(bus) = 2
    /\ bus[2].data = <<118>>

-----------------------------------------------------------------------------
(* C13 *)

\* C13: for every byte sequence, the empty one included, add_xor_check
\* returns the sequence followed by exactly one byte, the XOR of all its
\* bytes, so that the XOR over the whole result is zero.
C13_AddXorCheck ==
    (op = "add_xor_check" /\ pc = "done") =>
        LET lst == loc.arg
            out == result.v
        IN /\ result.t = "bytes"
           /\ Len(out) = Len(lst) + 1
           /\ \A i \in 1..Len(lst) : out[i] = lst[i]
           /\ out[Len(out)] = XorOf(lst)
           /\ XorOf(out) = 0

\* the empty sequence got the check byte 0
C13_Witness ==
    /\ op = "add_xor_check"
    /\ pc = "done"
    /\ loc.arg = <<>>
    /\ result.v = <<0>>

-----------------------------------------------------------------------------
(* C14 *)

Busy == <<118>>

C14_Inv ==
    /\ \A i \in 1..Len(bus) :
          \* a fault outside _wait_done ends the call at once
          /\ ~bus[i].ok =>
                (i = Len(bus) /\ pc = "raised" /\ err = "OSError" /\ NoPolling)
          \* so does a status other than ACK at a frame boundary
          /\ (bus[i].ok /\ bus[i].k = "r" /\ bus[i].at # "payload" /\ bus[i].data # Ack) =>
                (i = Len(bus) /\ pc = "raised" /\ err # "" /\ NoPolling)
          \* no frame is sent twice, no boundary status is read twice
          /\ \A j \in 1..Len(bus) :
                (bus[i].k = bus[j].k /\ bus[i].at = bus[j].at) => i = j
    \* while the polling loop runs, every attempt made so far faulted or
    \* read BUSY
    /\ (pc = "wait" /\ wd.retry >= 1) => (wd.last = "fault" \/ wd.resp = Busy)
    /\ pc = "wait" => wd.resp \in { <<>>, Busy }

C14_Step ==
    \* inside _wait_done neither a fault nor a status ends the call with an
    \* error, and nothing is written
    /\ pc = "wait" => (pc' \in { "wait", "wait_ret" } /\ bus' = bus /\ err' = err)
    \* another attempt is made only after a fault or BUSY
    /\ (pc = "wait" /\ pc' = "wait") =>
          /\ wd'.retry = wd.retry + 1
          /\ wd'.last = "fault" \/ (wd'.last = "status" /\ wd'.resp = Busy)
    \* outside _wait_done a failing statement is the call's last transaction
    /\ (pc' = "raised" /\ pc \notin { "raised", "idle", "wait_ret", "pins" }) =>
          /\ Len(bus') <= Len(bus) + 1
          /\ wd' = wd

\* C14: retrying happens only in the polling loop.  Outside _wait_done a
\* status other than ACK at a command, address or argument boundary, and an
\* OSError from any write or read, end the call at once with an error: no
\* frame is sent again and no status is read again.  Inside _wait_done only
\* BUSY and OSError lead to another attempt.
C14_RetryOnlyInPolling == [](C14_Inv) /\ [][C14_Step]_vars

\* the address frame of a call could not be written: the call raised OSError
\* after its third transaction
C14_Witness ==
    /\ pc = "raised"
    /\ err = "OSError"
    /\ Len(bus) = 3
    /\ bus[3].k = "w"
    /\ ~bus[3].ok

-----------------------------------------------------------------------------
(* C15 *)

Running(c) == conc.ctx[c].i # 0

\* C15: the driver takes no lock of its own.  When the callers hold a lock
\* around every high-level operation, only one operation is in progress at
\* a time and every status read follows a frame write of the operation that
\* issues the read.  (Without the lock the reads of one context can follow
\* the other context's frame: C15_Witness.)
C15_LockedReadsOwnFrame ==
    conc.locking =>
        /\ ~(Running(1) /\ Running(2))
        /\ \A c \in {1, 2} : Running(c) => conc.lock = c
        /\ conc.lastr.c # 0 => conc.lastr.after = conc.lastr.c

\* no lock: context 1 has just read a status byte, and the latest frame on
\* the bus was written by context 2
C15_Witness ==
    /\ ~conc.locking
    /\ conc.lastr.c = 1
    /\ conc.lastr.after = 2

-----------------------------------------------------------------------------
(* C16 *)

Unassigned == <<>>

C16_Inv ==
    \* the loop was left by break exactly when an attempt read a status other
    \* than BUSY, and that attempt was the last one
    /\ wd.brk <=> wd.resp \notin { Unassigned, Busy }
    /\ wd.brk => (wd.last = "status" /\ pc # "wait")

C16_Step ==
    \* the attempt that reads a status other than BUSY ends the polling and
    \* is not followed by a sleep
    /\ (pc = "wait" /\ wd'.last = "status" /\ wd'.resp # Busy) =>
          /\ pc' = "wait_ret"
          /\ wd'.retry = wd.retry + 1
          /\ clock' = clock
    \* what _wait_done returns is that status, whatever came before it; no
    \* attempt and no sleep of this _wait_done call follows
    /\ (pc = "wait_ret" /\ wd.brk) =>
          /\ pc' \in { "done", "wait" }
          /\ pc' = "done" =>
                /\ wd'.retry = wd.retry
                /\ wd'.resp = wd.resp
                /\ clock' = clock
                /\ result' = IF op \in DoubleAckOps
                             THEN [ t |-> "bytes", b |-> FALSE, v |-> wd.resp ]
                             ELSE [ t |-> "bool", b |-> (wd.resp = Ack), v |-> <<>> ]
          /\ pc' = "wait" =>
                /\ op \in DoubleAckOps
                /\ wd.resp = Ack
                /\ da_resp' = wd.resp
                /\ wd'.retry = 0
                /\ clock' = <<0>>

\* C16: in _wait_done the first attempt that reads a status other than BUSY
\* ends the polling: that status is returned unchanged, no attempt and no
\* sleep follows it, and the BUSY statuses and faults of earlier attempts do
\* not change the value returned.
C16_FirstNonBusyEnds == [](C16_Inv) /\ [][C16_Step]_vars

\* readout_protect returned NACK, read by the third attempt of its first
\* wait after one fault (50 ms) and one BUSY (20 ms)
C16_Witness ==
    /\ op = "readout_protect"
    /\ pc = "done"
    /\ waits = 1
    /\ wd.brk
    /\ wd.retry = 3
    /\ clock = <<70>>
    /\ result = [ t |-> "bytes", b |-> FALSE, v |-> <<31>> ]

-----------------------------------------------------------------------------
(* C19 *)

Slept == clock[1]

C19_Inv ==
    /\ Slept \in 0..5000
    /\ Slept <= 50 * wd.retry

\* what each attempt adds to the time slept
C19_Step ==
    pc = "wait" =>
        /\ wd'.retry = wd.retry + 1
        /\ clock'[1] - clock[1] =
              IF wd'.last = "fault" THEN 50
              ELSE IF wd'.resp = Busy THEN 20
              ELSE 0
        /\ (wd'.last = "status" /\ wd'.resp # Busy) => pc' = "wait_ret"

\* C19: the time one _wait_done call sleeps never exceeds 100 * 50 = 5000
\* ms: an attempt that faults sleeps 50 ms, one that reads BUSY sleeps 20 ms,
\* one that reads any other status sleeps nothing and ends the call.
C19_SleepBudget == [](C19_Inv) /\ [][C19_Step]_vars

\* a _wait_done call whose 100 attempts all faulted has slept 5000 ms
C19_Witness ==
    /\ pc = "wait_ret"
    /\ wd.retry = 100
    /\ clock = <<5000>>

-----------------------------------------------------------------------------
(* C17 *)

LengthOutOfRange == loc.ln < 1 \/ loc.ln > 256

\* C17: a call of read_at or write_at with a length outside 1..256, the
\* length 0 included, fails before any bus traffic: no frame has been
\* written and no status has been read when it fails.
C17_RejectLengthBeforeBus ==
    (op \in { "read_at", "write_at" } /\ LengthOutOfRange) =>
        /\ bus = <<>>
        /\ NoPolling
        /\ pc \in { "done", "raised" } => (pc = "raised" /\ err # "")

-----------------------------------------------------------------------------
(* C18 *)

RunAtExpected(a) ==
    << Wrote("cmd", << 33, 222 >>), GotAck("cmd"),
       Wrote("addr", AddressFrame(a)), GotAck("addr") >>

\* C18: bl_cmd_read with expect_len = 0 returns right after the ACK of its
\* last frame: it reads no payload and no trailing status.  run_at makes
\* exactly two writes, {0x21, 0xDE} and the five-byte address frame, and two
\* one-byte status reads, never polls and returns no value.
C18_RunAt ==
    /\ loc.expect_len = 0 =>
          \A i \in 1..Len(bus) : bus[i].at \notin { "payload", "final" }
    /\ op = "run_at" =>
          LET exp == RunAtExpected(loc.addr[1])
          IN /\ NoPolling
             /\ Len(exp[3].data) = 5
             /\ Len(bus) <= 4
             /\ \A i \in 1..Len(bus) :
                   /\ bus[i].k = exp[i].k
                   /\ bus[i].n = exp[i].n
                   /\ bus[i].k = "w" => bus[i].data = exp[i].data
                   /\ i < Len(bus) => bus[i] = exp[i]
             /\ pc = "done" <=> bus = exp
             /\ pc = "done" =>
                   (err = "" /\ result = [ t |-> "none", b |-> FALSE, v |-> <<>> ])

\* run_at returned after its four transactions
C18_Witness ==
    /\ op = "run_at"
    /\ pc = "done"
    /\ Len(bus) = 4
    /\ bus[4] = GotAck("addr")

-----------------------------------------------------------------------------
(* C20 *)

ProtocolOps == { "get_version", "bulk_erase", "readout_unprotect",
                 "readout_protect", "read_at", "write_at", "run_at" }

C20_Inv ==
    /\ op \in { "reset", "enter_bl" } => (bus = <<>> /\ NoPolling)
    /\ op \in ProtocolOps => pins = <<>>

C20_Step ==
    (op \in ProtocolOps \/ op' \in ProtocolOps) =>
        (g_reset' = g_reset /\ g_boot0' = g_boot0)

\* C20: reset() and enter_bl() write nothing to the bus and read nothing
\* from it; every protocol operation, whether it returns or raises, leaves
\* the mode and the value of the reset and boot-select lines as they were.
C20_Frame == [](C20_Inv) /\ [][C20_Step]_vars

\* a protocol operation failed on the bus while reset was held low
C20_Witness ==
    /\ op \in ProtocolOps
    /\ pc = "raised"
    /\ bus # <<>>
    /\ g_reset = 0
    /\ g_boot0 = [ mode |-> "IN", val |-> 1 ]

====
